---- MODULE Spec2Model ----
(***************************************************************************)
(* Model of app.py, the "Codebase Extractor for LLMs": one press of the    *)
(* process button extracts the uploaded ZIP into a temporary directory,    *)
(* get_files collects the files to read, read_and_combine concatenates     *)
(* them under per-file headers, count_tokens counts the tokens, the        *)
(* results are displayed and the temporary directory is removed.           *)
(*                                                                         *)
(* Text is modelled character by character: a name is a sequence of        *)
(* one-character strings, so that str.lower, str.strip, str.lstrip,        *)
(* str.splitlines and Path.suffix are computed as Python computes them.    *)
(* A path is the sequence of its segment names from the filesystem root    *)
(* (<<>>) down; all paths are absolute. The extracted tree holds regular   *)
(* files and directories only: zipfile.extractall writes no symbolic       *)
(* links, and the temporary directory path is resolved (line 276), so      *)
(* Path.resolve() returns each traversed path unchanged.                   *)
(***************************************************************************)
EXTENDS Integers, Sequences, FiniteSets, TLC

VARIABLES
    pc,                  \* position of the script inside the button handler
    tempDir,             \* "none" | "exists" | "removed"  (tempfile.TemporaryDirectory)
    fsDirs,              \* directories of the extracted tree (paths)
    fsFiles,             \* regular files of the extracted tree (paths)
    selected_extensions, \* the multiselect's value (sequence of names)
    exclusions_str,      \* the text area's value (sequence of characters)
    exclusions_lower,    \* line 271
    extracted,           \* line 277 / 286
    listing_raised,      \* history: listing the root raised inside get_files
    files_to_process,    \* line 304: matched_files returned by get_files
    scan_root_path,      \* line 304: scan_root returned by get_files
    i,                   \* read_and_combine: number of loop iterations completed
    combined_content,    \* read_and_combine: list of text pieces (line 128)
    files_processed_count, \* line 130
    errors_encountered,  \* line 133 (messages)
    records,             \* history: what each loop iteration met and did
    combined_text,       \* line 313
    files_read_count,    \* line 313
    token_count,         \* line 318 / 320
    tokenizer,           \* history: what the tokenizer backend did in count_tokens
    called,              \* history: functions of the core that were invoked
    shown,               \* history: what the page displayed (st.error, st.metric, ...)
    raised               \* an exception is propagating out of the with block

vars == <<pc, tempDir, fsDirs, fsFiles, selected_extensions, exclusions_str,
          exclusions_lower, extracted, listing_raised, files_to_process,
          scan_root_path, i, combined_content, files_processed_count,
          errors_encountered, records, combined_text, files_read_count,
          token_count, tokenizer, called, shown, raised>>

(***************************************************************************)
(* Bounds of the model.                                                    *)
(***************************************************************************)
\* Files in an extracted tree, when get_files alone is explored (ScanSpec).
ScanMaxFiles == 2
\* Files in an extracted tree, when the whole run is explored (Spec).
RunMaxFiles == 2
\* Bytes of a file that detect_encoding samples: f.read(5000) at line 21, with
\* the model's files a few bytes long.
SampleSize == 2

(***************************************************************************)
(* Characters and strings.                                                 *)
(***************************************************************************)
RECURSIVE Str(_)
\* "".join of a sequence of strings (also: the string of a character sequence).
Str(s) == IF s = <<>> THEN "" ELSE Head(s) \o Str(Tail(s))

\* str.lower() of one character, for the letters the model uses.
LowerChar(c) ==
    CASE c = "A" -> "a" [] c = "B" -> "b" [] c = "D" -> "d" [] c = "G" -> "g"
      [] c = "M" -> "m" [] c = "P" -> "p" [] c = "Y" -> "y"
      [] OTHER -> c

\* str.lower()
Lower(s) == [k \in 1..Len(s) |-> LowerChar(s[k])]

IsSpace(c) == c \in {" ", "\t", "\r", "\n"}

RECURSIVE LStripSpace(_)
LStripSpace(s) ==
    IF s # <<>> /\ IsSpace(Head(s)) THEN LStripSpace(Tail(s)) ELSE s

RECURSIVE RStripSpace(_)
RStripSpace(s) ==
    IF s # <<>> /\ IsSpace(s[Len(s)])
    THEN RStripSpace(SubSeq(s, 1, Len(s) - 1)) ELSE s

\* str.strip()
Strip(s) == RStripSpace(LStripSpace(s))

RECURSIVE LStripDot(_)
\* str.lstrip('.')
LStripDot(s) == IF s # <<>> /\ Head(s) = "." THEN LStripDot(Tail(s)) ELSE s

RECURSIVE SplitLines(_, _)
\* str.splitlines(), the current line being cur: a line ends at "\n" or at
\* the end of the text; no empty last line is produced.
SplitLines(s, cur) ==
    IF s = <<>> THEN (IF cur = <<>> THEN <<>> ELSE <<cur>>)
    ELSE IF Head(s) = "\n" THEN <<cur>> \o SplitLines(Tail(s), <<>>)
    ELSE SplitLines(Tail(s), Append(cur, Head(s)))

Range(s) == {s[k] : k \in 1..Len(s)}

\* Line 271: [line.strip().lower() for line in exclusions_str.splitlines() if line.strip()]
ExclusionsLower(text) ==
    LET lines == SplitLines(text, <<>>)
        kept  == SelectSeq(lines, LAMBDA l : Strip(l) # <<>>)
    IN  [k \in 1..Len(kept) |-> Lower(Strip(kept[k]))]

\* str.rfind('.'), 1-based; 0 when there is no dot.
RFindDot(name) ==
    LET at == {k \in 1..Len(name) : name[k] = "."}
    IN  IF at = {} THEN 0 ELSE CHOOSE k \in at : \A j \in at : j <= k

\* pathlib's PurePath.suffix: the last dot and what follows, unless that dot
\* is the first or the last character of the name.
Suffix(name) ==
    LET d == RFindDot(name)
    IN  IF 1 < d /\ d < Len(name) THEN SubSeq(name, d, Len(name)) ELSE <<>>

\* Line 60: f".{ext.lstrip('.').lower()}" for each extension.
ValidExtensions(extensions) ==
    [k \in 1..Len(extensions) |-> <<".">> \o Lower(LStripDot(extensions[k]))]

(***************************************************************************)
(* Names, paths and the extracted tree.                                    *)
(***************************************************************************)
n_t   == <<"t">>                       \* the temporary directory's own name
n_p   == <<"p">>                       \* a directory
n_G   == <<".", "G">>                  \* a directory
n_apy == <<"a", ".", "p", "y">>        \* files
n_BPY == <<"B", ".", "P", "Y">>
n_cmd == <<"c", ".", "m", "d">>
n_py  == <<".", "p", "y">>             \* a hidden file: its suffix is empty

DirNames  == {n_p, n_G}
FileNames == {n_apy, n_BPY, n_cmd, n_py}

\* Line 276: temp_dir_path, an absolute resolved path; <<>> is the filesystem root.
temp_dir_path == <<n_t>>

\* Path.parent: the filesystem root is its own parent.
Parent(path) == IF path = <<>> THEN <<>> ELSE SubSeq(path, 1, Len(path) - 1)

\* Path.name
Name(path) == IF path = <<>> THEN <<>> ELSE path[Len(path)]

IsPrefix(a, b) == Len(a) <= Len(b) /\ SubSeq(b, 1, Len(a)) = a

\* Path.is_dir() and Path.is_file() on the extracted tree.
IsDir(path)  == path \in fsDirs
IsFile(path) == path \in fsFiles

\* The order in which a directory listing (os.scandir) returns names is the
\* filesystem's; two opposite orders are explored.
ListingOrders ==
    { <<n_p, n_G, n_apy, n_BPY, n_cmd, n_py>>,
      <<n_py, n_cmd, n_BPY, n_apy, n_G, n_p>> }

\* Path.iterdir(): the entries of a directory, in listing order.
IterDir(dir, order) ==
    LET names == SelectSeq(order, LAMBDA n : Append(dir, n) \in fsDirs \cup fsFiles)
    IN  [k \in 1..Len(names) |-> Append(dir, names[k])]

RECURSIVE RGlob(_, _)
RECURSIVE RGlobEach(_, _)
\* Path.rglob('*'): the entries of the directory, then, for each of its
\* subdirectories in turn, that subdirectory's rglob('*').
\* RGlob yielding the files of a directory a second time after its subdirectories.
RGlobRevisiting(dir, order) ==
    LET here == IterDir(dir, order)
    IN  here \o RGlobEach(SelectSeq(here, IsDir), order) \o SelectSeq(here, IsFile)

RGlob(dir, order) ==
    LET here == IterDir(dir, order)
    IN  here \o RGlobEach(SelectSeq(here, IsDir), order)
RGlobEach(subdirs, order) ==
    IF subdirs = <<>> THEN <<>>
    ELSE RGlob(Head(subdirs), order) \o RGlobEach(Tail(subdirs), order)

(***************************************************************************)
(* get_files (lines 51-121).                                               *)
(***************************************************************************)
\* ScanRoot without the test of line 70.
ScanRootIgnoringExclusions(root_dir, exclusions, order, listing_raises) ==
    LET items_in_root == IterDir(root_dir, order)
    IN  IF listing_raises THEN root_dir
        ELSE IF Len(items_in_root) = 1 /\ IsDir(items_in_root[1])
             THEN items_in_root[1]
             ELSE root_dir

\* Lines 63-78: the directory the scan starts from. listing_raises: iterdir()
\* or is_dir() raised, which the except clause at line 76 catches.
ScanRoot(root_dir, exclusions, order, listing_raises) ==
    LET items_in_root == IterDir(root_dir, order)
    IN  IF listing_raises THEN root_dir
        ELSE IF /\ Len(items_in_root) = 1
                /\ IsDir(items_in_root[1])
                /\ Lower(Name(items_in_root[1])) \notin Range(exclusions)
             THEN items_in_root[1]
             ELSE root_dir

RECURSIVE ParentExcluded(_, _, _)
\* Lines 92-98: the walk from current_parent up to scan_root (or to the
\* filesystem root), looking for a directory whose name is excluded.
ParentExcluded(current_parent, scan_root, exclusions) ==
    IF current_parent # scan_root /\ current_parent # Parent(current_parent)
    THEN IF Lower(Name(current_parent)) \in Range(exclusions)
         THEN TRUE
         ELSE ParentExcluded(Parent(current_parent), scan_root, exclusions)
    ELSE FALSE

\* Excluded looking at the item's own name and at its parent's only.
ExcludedNearestOnly(item, scan_root, exclusions) ==
    \/ Lower(Name(item)) \in Range(exclusions)
    \/ /\ Parent(item) # scan_root
       /\ Lower(Name(Parent(item))) \in Range(exclusions)

\* Lines 84-98: the value of `excluded` for one traversed item.
Excluded(item, scan_root, exclusions) ==
    IF Lower(Name(item)) \in Range(exclusions) THEN TRUE
    ELSE ParentExcluded(Parent(item), scan_root, exclusions)

\* Line 105: the item is a file whose lowercased suffix is a valid extension.
SuffixMatches(item, valid_extensions) ==
    IsFile(item) /\ Lower(Suffix(Name(item))) \in Range(valid_extensions)

\* Lines 83-107: the loop over scan_root.rglob('*'); each kept item adds its
\* resolved path, which is the item itself in a tree without links.
MatchedFiles(scan_root, valid_extensions, exclusions, order) ==
    SelectSeq(RGlob(scan_root, order),
              LAMBDA item : /\ ~Excluded(item, scan_root, exclusions)
                            /\ SuffixMatches(item, valid_extensions))

\* get_files: (matched_files, scan_root).
get_files(root_dir, extensions, exclusions, order, listing_raises) ==
    IF ~IsDir(root_dir)
    THEN [matched_files |-> <<>>, scan_root |-> root_dir]
    ELSE LET valid_extensions == ValidExtensions(extensions)
             scan_root == ScanRoot(root_dir, exclusions, order, listing_raises)
         IN  [matched_files |->
                  MatchedFiles(scan_root, valid_extensions, exclusions, order),
              scan_root |-> scan_root]

(***************************************************************************)
(* Bytes, code points and decoding.                                        *)
(* A file's content is a sequence of bytes (0..255); decoded text is a     *)
(* sequence of code points. In strings, the code points outside ASCII are  *)
(* written with one ASCII character each: U+00E9 as "^", U+00C3 as "~",    *)
(* U+00A9 as "@" and the replacement character U+FFFD as "?".              *)
(***************************************************************************)
Chr(cp) ==
    CASE cp = 97 -> "a" [] cp = 10 -> "\n" [] cp = 13 -> "\r"
      [] cp = 233 -> "^" [] cp = 195 -> "~" [] cp = 169 -> "@"
      [] OTHER -> "?"

TextOf(cps) == Str([k \in 1..Len(cps) |-> Chr(cps[k])])

REPLACEMENT == 65533

\* bytes.decode('ascii', errors='replace')
DecodeAscii(bytes) ==
    [k \in 1..Len(bytes) |-> IF bytes[k] < 128 THEN bytes[k] ELSE REPLACEMENT]

\* bytes.decode('latin-1'): every byte is the code point of the same number.
DecodeLatin1(bytes) == bytes

IsContinuation(b) == 128 <= b /\ b <= 191

RECURSIVE DecodeUtf8(_)
\* bytes.decode('utf-8', errors='replace'), for one- and two-byte sequences:
\* a lead byte without its continuation byte, or a stray continuation byte,
\* becomes U+FFFD.
DecodeUtf8(bytes) ==
    IF bytes = <<>> THEN <<>>
    ELSE IF Head(bytes) < 128 THEN <<Head(bytes)>> \o DecodeUtf8(Tail(bytes))
    ELSE IF /\ 194 <= Head(bytes) /\ Head(bytes) <= 223
            /\ Len(bytes) >= 2 /\ IsContinuation(bytes[2])
         THEN <<(Head(bytes) - 192) * 64 + (bytes[2] - 128)>>
                  \o DecodeUtf8(Tail(Tail(bytes)))
    ELSE <<REPLACEMENT>> \o DecodeUtf8(Tail(bytes))

\* The bytes are well-formed UTF-8.
ValidUtf8(bytes) == REPLACEMENT \notin Range(DecodeUtf8(bytes))

RECURSIVE UniversalNewlines(_)
\* open(..., 'r') with newline=None: "\r\n" and "\r" are read as "\n".
UniversalNewlines(cps) ==
    IF cps = <<>> THEN <<>>
    ELSE IF Head(cps) = 13
         THEN <<10>> \o UniversalNewlines(
                  IF Len(cps) >= 2 /\ cps[2] = 10 THEN Tail(Tail(cps)) ELSE Tail(cps))
    ELSE <<Head(cps)>> \o UniversalNewlines(Tail(cps))

\* The codecs Python can look up, among the names the detector returns.
KnownCodecs == {"ascii", "utf-8", "ISO-8859-1", "latin-1"}

\* f.read() of a file opened with open(path, 'r', encoding=..., errors='replace').
ReadText(bytes, encoding) ==
    UniversalNewlines(
        CASE encoding = "ascii" -> DecodeAscii(bytes)
          [] encoding = "utf-8" -> DecodeUtf8(bytes)
          [] OTHER -> DecodeLatin1(bytes))

(***************************************************************************)
(* detect_encoding (lines 16-31).                                          *)
(***************************************************************************)

\* chardet.detect: what the detector may answer for a sample, confidence in
\* tenths. An empty sample has no encoding; a pure-ASCII sample is 'ascii'
\* with confidence 1.0; for other samples the answer is the detector's guess.
ChardetDetect(raw_data) ==
    IF raw_data = <<>> THEN {[encoding |-> "None", confidence |-> 0]}
    ELSE IF \A k \in 1..Len(raw_data) : raw_data[k] < 128
         THEN {[encoding |-> "ascii", confidence |-> 10]}
    ELSE {[encoding |-> "utf-8", confidence |-> 9],
          [encoding |-> "ISO-8859-1", confidence |-> 7],
          [encoding |-> "ISO-8859-1", confidence |-> 5],
          [encoding |-> "EUC-TW", confidence |-> 9],
          [encoding |-> "None", confidence |-> 0]}

\* detect_encoding: open_result is what open(file_path, 'rb') did, result is
\* chardet's answer for the sample.
detect_encoding(open_result, result) ==
    IF open_result # "ok" THEN "utf-8"
    ELSE IF result.encoding # "None" /\ result.confidence > 5
         THEN result.encoding
         ELSE "utf-8"

\* The sample detect_encoding hands to the detector.
Sample(bytes) == SubSeq(bytes, 1, IF Len(bytes) < SampleSize THEN Len(bytes) ELSE SampleSize)

(***************************************************************************)
(* count_tokens (lines 33-49).                                             *)
(***************************************************************************)
\* What the tokenizer backend may do for a text: encoding_for_model resolves
\* the model or raises, and encode returns a list of tokens (here: its
\* length, a token standing for up to three characters) or raises.
TokenizerOutcomes(text) ==
    {[resolve |-> r, encode |-> "-", tokens |-> 0] :
        r \in {"ModuleNotFoundError", "KeyError"}}
    \cup {[resolve |-> "ok", encode |-> "ValueError", tokens |-> 0]}
    \cup {[resolve |-> "ok", encode |-> "ok", tokens |-> (Len(text) + 2) \div 3]}

\* count_tokens rounding the approximation up.
count_tokens_rounding_up(text, backend) ==
    IF backend.resolve = "ModuleNotFoundError" THEN 0
    ELSE IF backend.resolve # "ok" \/ backend.encode # "ok"
         THEN (Len(text) + 3) \div 4
         ELSE backend.tokens

\* count_tokens(text, model) with the backend behaving as `backend`.
count_tokens(text, backend) ==
    IF backend.resolve = "ModuleNotFoundError" THEN 0
    ELSE IF backend.resolve # "ok" \/ backend.encode # "ok"
         THEN Len(text) \div 4
         ELSE backend.tokens

(***************************************************************************)
(* read_and_combine (lines 124-207): one iteration of the loop.            *)
(***************************************************************************)
\* '=' * 10
Equals10 == Str([k \in 1..10 |-> "="])

RECURSIVE JoinPath(_)
\* str() of a relative PosixPath: the segments joined by "/".
JoinPath(rel) ==
    IF rel = <<>> THEN "."
    ELSE IF Len(rel) = 1 THEN Str(rel[1])
    ELSE Str(rel[1]) \o "/" \o JoinPath(Tail(rel))

\* Path.relative_to: the segments below `base`, or ValueError.
RelativeTo(path, base) ==
    IF IsPrefix(base, path)
    THEN [ok |-> TRUE, rel |-> SubSeq(path, Len(base) + 1, Len(path))]
    ELSE [ok |-> FALSE, rel |-> <<>>]

\* Header with a single newline after the closing '=' run.
HeaderOneNewline(relative_path) ==
    "\n" \o Equals10 \o " File: " \o JoinPath(relative_path) \o " " \o Equals10 \o "\n"

\* Line 145
Header(relative_path) ==
    "\n" \o Equals10 \o " File: " \o JoinPath(relative_path) \o " " \o Equals10 \o "\n\n"

\* Lines 192 and 198: the record of a file whose path could not be processed.
ErrorHeader(what, file_path, e) ==
    "\n" \o Equals10 \o " Error processing " \o what \o ": " \o Str(Name(file_path))
        \o " " \o Equals10 \o "\n[Error: " \o e \o "]\n"

\* Counted incrementing on the failed latin-1 read too.
CountedOnFallbackFailure(status) ==
    IF status \in {"read", "fallback", "fallback_failed"} THEN 1 ELSE 0

\* Lines 156 and 165: files_processed_count += 1 after a read that returned,
\* under the detected encoding or under latin-1; no other path increments it.
Counted(status) == IF status \in {"read", "fallback"} THEN 1 ELSE 0

\* What one iteration does to the function's locals: the pieces appended to
\* combined_content, the increment of files_processed_count, the messages
\* appended to errors_encountered, and (history) how the file fared.
\*   env.entry    "ok", or the exception raised before the header is built
\*   env.det_open what open(path, 'rb') did inside detect_encoding
\*   env.result   chardet's answer
\*   env.data     the bytes of the file
\*   env.io       what the read under the detected encoding did
\*   env.io2      what the read under latin-1 did
\* retries (history) is the number of times the file was opened under latin-1
\* (line 161).
ProcessFile(file_path, relative_to_dir, env) ==
    LET r == RelativeTo(file_path, relative_to_dir)
        relative_path == JoinPath(r.rel)
        header == Header(r.rel)
        encoding == detect_encoding(env.det_open, env.result)
        Failed(status, marker, msg, retries) ==
            [pieces |-> <<header, marker>>, counted |-> Counted(status),
             errors |-> <<msg>>, retries |-> retries,
             status |-> status, data |-> <<>>, body |-> ""]
        Read(status, enc, retries) ==
            [pieces |-> <<header, TextOf(ReadText(env.data, enc)), "\n">>,
             counted |-> Counted(status), errors |-> <<>>, retries |-> retries,
             status |-> status, data |-> env.data,
             body |-> TextOf(ReadText(env.data, enc))]
    IN
    IF env.entry # "ok" THEN                                  \* lines 193-198
        [pieces |-> <<ErrorHeader("entry", file_path, env.entry)>>,
         counted |-> Counted("entry_error"),
         errors |-> <<"Unexpected error processing file entry "
                        \o Str(Name(file_path)) \o ": " \o env.entry>>,
         retries |-> 0,
         status |-> "entry_error", data |-> <<>>, body |-> ""]
    ELSE IF ~r.ok THEN                                        \* lines 187-192
        [pieces |-> <<ErrorHeader("path", file_path, "ValueError")>>,
         counted |-> Counted("path_error"),
         errors |-> <<"Error creating relative path for "
                        \o Str(Name(file_path)) \o ": ValueError">>,
         retries |-> 0,
         status |-> "path_error", data |-> <<>>, body |-> ""]
    ELSE IF env.io = "FileNotFoundError" THEN                 \* lines 171-175
        Failed("FileNotFoundError", "[Error: File not found]\n",
               "File not found during read attempt: " \o relative_path, 0)
    ELSE IF env.io = "PermissionError" THEN                   \* lines 176-180
        Failed("PermissionError", "[Error: Permission denied]\n",
               "Permission denied reading file: " \o relative_path, 0)
    ELSE IF env.io = "OSError" THEN                           \* lines 181-185
        Failed("OSError", "[Error reading file: OSError]\n",
               "Could not read file " \o relative_path \o ": OSError", 0)
    ELSE IF encoding \notin KnownCodecs THEN                  \* lines 181-185
        Failed("LookupError", "[Error reading file: LookupError]\n",
               "Could not read file " \o relative_path \o ": LookupError", 0)
    ELSE IF env.io = "UnicodeDecodeError" THEN                \* lines 157-170
        IF env.io2 = "ok" THEN Read("fallback", "latin-1", 1)
        ELSE Failed("fallback_failed",
                    "[Error reading file: " \o env.io2 \o "]\n",
                    "Failed to read file " \o relative_path
                        \o " even with fallback encoding 'latin-1': " \o env.io2,
                    1)
    ELSE Read("read", encoding, 0)                            \* lines 152-156

(***************************************************************************)
(* Inputs: the widgets' values, the archive's tree, the files' bytes.      *)
(***************************************************************************)
e_py         == <<".", "p", "y">>
e_md         == <<".", "m", "d">>
e_Dockerfile == <<"D", "o", "c", "k", "e", "r", "f", "i", "l", "e">>

\* Values of the extensions multiselect (its options, lines 232-235); the
\* empty selection is refused at line 266.
ExtensionChoices == {<<e_py>>, <<e_Dockerfile, e_md, e_py>>}

\* Values of the exclusions text area: nothing; "py" and ".G"; " P ", a
\* blank line and "a.py".
ExclusionTexts ==
    { <<>>,
      <<"p", "y", "\n", ".", "G">>,
      <<" ", "P", " ", "\n", "\n", "a", ".", "p", "y">> }

\* Directories in which the archive may hold files, below the temporary directory.
ScanDirs == {<<>>, <<n_p>>, <<n_G>>, <<n_p, n_G>>, <<n_G, n_p>>, <<n_p, n_p>>}
ScanCandidates == {temp_dir_path \o d \o <<f>> : d \in ScanDirs, f \in FileNames}

\* The files an archive may hold when the whole run is explored.
RunCandidates ==
    {temp_dir_path \o q : q \in { <<n_apy>>, <<n_p, n_apy>>, <<n_p, n_cmd>>,
                                  <<n_G, n_BPY>> }}

\* A directory entry of the archive that holds no file (temp_dir_path: none).
EmptyDirChoices == {temp_dir_path, temp_dir_path \o <<n_p>>, temp_dir_path \o <<n_G>>}

\* The directories of a tree: the temporary directory, the ancestors of its
\* files below it and the empty directory.
DirsOf(files, empty_dir) ==
    {temp_dir_path, empty_dir}
    \cup UNION {{SubSeq(f, 1, k) : k \in Len(temp_dir_path)..(Len(f) - 1)} : f \in files}

RECURSIVE SubsetsUpTo(_, _)
\* The subsets of S with at most n elements.
SubsetsUpTo(S, n) ==
    IF n = 0 THEN {{}}
    ELSE LET smaller == SubsetsUpTo(S, n - 1)
         IN  smaller \cup {T \cup {x} : T \in smaller, x \in S}

Trees(candidates, max_files, empty_dirs) ==
    {[files |-> F, dirs |-> DirsOf(F, e)] :
        F \in SubsetsUpTo(candidates, max_files), e \in empty_dirs}

\* Contents of a file, all well-formed UTF-8: "aa" and U+00E9; U+00E9 alone;
\* "a", CR, LF.
Contents == { <<97, 97, 195, 169>>, <<195, 169>>, <<97, 13, 10>> }

\* What may happen to one file in one iteration of read_and_combine: an
\* exception before the header is built; the file cannot be opened (then
\* detect_encoding may have failed to open it too); the file is read under
\* the detected encoding; the read raises UnicodeDecodeError and the file is
\* read again under latin-1, which works or raises.
ReadEnvs ==
    {[entry |-> "RuntimeError", det_open |-> "ok", data |-> <<>>, io |-> "ok",
      io2 |-> "ok", result |-> [encoding |-> "None", confidence |-> 0]]}
    \cup
    UNION {
      {[entry |-> "ok", det_open |-> d, data |-> <<>>, io |-> f, io2 |-> "ok",
        result |-> [encoding |-> "None", confidence |-> 0]] : d \in {"ok", f}} :
      f \in {"FileNotFoundError", "PermissionError", "OSError"} }
    \cup
    UNION {
      {[entry |-> "ok", det_open |-> "ok", data |-> bytes, io |-> "ok",
        io2 |-> "ok", result |-> res] : res \in ChardetDetect(Sample(bytes))} :
      bytes \in Contents }
    \cup
    {[entry |-> "ok", det_open |-> "ok", data |-> <<195, 169>>,
      io |-> "UnicodeDecodeError", io2 |-> g,
      result |-> [encoding |-> "utf-8", confidence |-> 9]] : g \in {"ok", "OSError"}}

(***************************************************************************)
(* The button handler (lines 264-359).                                     *)
(***************************************************************************)
Init ==
    /\ pc = "idle"
    /\ tempDir = "none"
    /\ fsDirs = {}
    /\ fsFiles = {}
    /\ selected_extensions \in ExtensionChoices \cup {<<>>}
    /\ exclusions_str \in ExclusionTexts
    /\ exclusions_lower = <<>>
    /\ extracted = FALSE
    /\ listing_raised = FALSE
    /\ files_to_process = <<>>
    /\ scan_root_path = <<>>
    /\ i = 0
    /\ combined_content = <<>>
    /\ files_processed_count = 0
    /\ errors_encountered = <<>>
    /\ records = <<>>
    /\ combined_text = ""
    /\ files_read_count = 0
    /\ token_count = 0
    /\ tokenizer = [resolve |-> "-", encode |-> "-", tokens |-> 0]
    /\ called = {}
    /\ shown = {}
    /\ raised = FALSE

\* Lines 266-267: the button is pressed with no extension selected.
ClickWithoutExtensions ==
    /\ pc = "idle"
    /\ selected_extensions = <<>>
    /\ shown' = shown \cup {"warning_no_extension"}
    /\ pc' = "done"
    /\ UNCHANGED <<tempDir, fsDirs, fsFiles, selected_extensions, exclusions_str,
                   exclusions_lower, extracted, listing_raised, files_to_process,
                   scan_root_path, i, combined_content, files_processed_count,
                   errors_encountered, records, combined_text, files_read_count,
                   token_count, tokenizer, called, raised>>

\* Lines 271-278: the exclusion list is built and the with block is entered.
EnterTempDir ==
    /\ pc = "idle"
    /\ selected_extensions # <<>>
    /\ exclusions_lower' = ExclusionsLower(exclusions_str)
    /\ tempDir' = "exists"
    /\ fsDirs' = {temp_dir_path}
    /\ extracted' = FALSE
    /\ pc' = "extract"
    /\ UNCHANGED <<fsFiles, selected_extensions, exclusions_str, listing_raised,
                   files_to_process, scan_root_path, i, combined_content,
                   files_processed_count, errors_encountered, records,
                   combined_text, files_read_count, token_count, tokenizer,
                   called, shown, raised>>

\* Lines 281-296: the archive is extracted, or it is no ZIP file (nothing is
\* written), or extractall raises after writing the tree or a part of it.
ExtractArchive ==
    /\ pc = "extract"
    /\ \E tree \in Trees(RunCandidates, RunMaxFiles, {temp_dir_path}) :
        \/ /\ fsFiles' = tree.files
           /\ fsDirs' = tree.dirs
           /\ extracted' = TRUE
           /\ shown' = shown \cup {"extract_success"}
        \/ /\ UNCHANGED <<fsFiles, fsDirs, extracted>>
           /\ shown' = shown \cup {"error_bad_zip"}
        \/ /\ fsFiles' = tree.files
           /\ fsDirs' = tree.dirs
           /\ UNCHANGED extracted
           /\ shown' = shown \cup {"error_extracting"}
    /\ pc' = "after_extract"
    /\ UNCHANGED <<tempDir, selected_extensions, exclusions_str, exclusions_lower,
                   listing_raised, files_to_process, scan_root_path, i,
                   combined_content, files_processed_count, errors_encountered,
                   records, combined_text, files_read_count, token_count,
                   tokenizer, called, raised>>

\* The core entered whether or not the extraction worked.
CoreGuardAlways == TRUE

\* Line 298: `if extracted:`
CoreGuard == extracted

\* Line 298, extraction failed: nothing more happens inside the with block.
SkipCore ==
    /\ pc = "after_extract"
    /\ ~CoreGuard
    /\ pc' = "exit"
    /\ UNCHANGED <<tempDir, fsDirs, fsFiles, selected_extensions, exclusions_str,
                   exclusions_lower, extracted, listing_raised, files_to_process,
                   scan_root_path, i, combined_content, files_processed_count,
                   errors_encountered, records, combined_text, files_read_count,
                   token_count, tokenizer, called, shown, raised>>

\* Lines 304-310: get_files, then the warning when nothing matched.
GetFilesCall ==
    /\ pc = "after_extract"
    /\ CoreGuard
    /\ \E order \in ListingOrders, listing_raises \in BOOLEAN :
        LET got == get_files(temp_dir_path, selected_extensions, exclusions_lower,
                             order, listing_raises)
        IN  /\ files_to_process' = got.matched_files
            /\ scan_root_path' = got.scan_root
            /\ listing_raised' = listing_raises
            /\ IF got.matched_files = <<>>
               THEN /\ shown' = shown \cup {"warning_no_files"}
                    /\ pc' = "exit"
               ELSE /\ shown' = shown \cup {"found"}
                    /\ pc' = "combine"
    /\ called' = called \cup {"get_files"}
    /\ UNCHANGED <<tempDir, fsDirs, fsFiles, selected_extensions, exclusions_str,
                   exclusions_lower, extracted, i, combined_content,
                   files_processed_count, errors_encountered, records,
                   combined_text, files_read_count, token_count, tokenizer,
                   raised>>

\* Lines 313 and 128-136: read_and_combine is entered.
StartCombine ==
    /\ pc = "combine"
    /\ called' = called \cup {"read_and_combine"}
    /\ combined_content' = <<>>
    /\ files_processed_count' = 0
    /\ errors_encountered' = <<>>
    /\ i' = 0
    /\ pc' = "reading"
    /\ UNCHANGED <<tempDir, fsDirs, fsFiles, selected_extensions, exclusions_str,
                   exclusions_lower, extracted, listing_raised, files_to_process,
                   scan_root_path, records, combined_text, files_read_count,
                   token_count, tokenizer, shown, raised>>

\* AfterFile letting a vanished file end the loop and leave the block.
AfterFileStopOnMissing(status) ==
    IF status = "FileNotFoundError" THEN "exit" ELSE "reading"

\* Lines 139-201: whatever happened to the file, each except clause ends the
\* iteration and the loop goes on.
AfterFile(status) == "reading"

\* Lines 138-201: one iteration of the loop of read_and_combine.
ReadFile ==
    /\ pc = "reading"
    /\ i < Len(files_to_process)
    /\ \E env \in ReadEnvs :
        LET file_path == files_to_process[i + 1]
            out == ProcessFile(file_path, scan_root_path, env)
        IN  /\ combined_content' = combined_content \o out.pieces
            /\ files_processed_count' = files_processed_count + out.counted
            /\ errors_encountered' = errors_encountered \o out.errors
            /\ records' = Append(records,
                   [path |-> file_path, status |-> out.status, data |-> out.data,
                    body |-> out.body, pieces |-> out.pieces,
                    counted |-> out.counted, retries |-> out.retries])
            /\ pc' = AfterFile(out.status)
    /\ i' = i + 1
    /\ UNCHANGED <<tempDir, fsDirs, fsFiles, selected_extensions, exclusions_str,
                   exclusions_lower, extracted, listing_raised, files_to_process,
                   scan_root_path, combined_text, files_read_count, token_count,
                   tokenizer, called, shown, raised>>

\* Lines 203-207 and 313: the loop is over, the pieces are joined and returned.
FinishCombine ==
    /\ pc = "reading"
    /\ i = Len(files_to_process)
    /\ combined_text' = Str(combined_content)
    /\ files_read_count' = files_processed_count
    /\ shown' = shown \cup (IF errors_encountered # <<>>
                            THEN {"warning_read_errors"} ELSE {})
    /\ pc' = "count"
    /\ UNCHANGED <<tempDir, fsDirs, fsFiles, selected_extensions, exclusions_str,
                   exclusions_lower, extracted, listing_raised, files_to_process,
                   scan_root_path, i, combined_content, files_processed_count,
                   errors_encountered, records, token_count, tokenizer, called,
                   raised>>

\* Lines 316-321: the tokens are counted when there is text.
CountTokens ==
    /\ pc = "count"
    /\ IF combined_text # ""
       THEN \E backend \in TokenizerOutcomes(combined_text) :
               /\ token_count' = count_tokens(combined_text, backend)
               /\ tokenizer' = backend
               /\ called' = called \cup {"count_tokens"}
               /\ UNCHANGED shown
       ELSE /\ token_count' = 0
            /\ shown' = shown \cup {"warning_no_text"}
            /\ UNCHANGED <<tokenizer, called>>
    /\ pc' = "display"
    /\ UNCHANGED <<tempDir, fsDirs, fsFiles, selected_extensions, exclusions_str,
                   exclusions_lower, extracted, listing_raised, files_to_process,
                   scan_root_path, i, combined_content, files_processed_count,
                   errors_encountered, records, combined_text, files_read_count,
                   raised>>

\* Lines 325-356: the metrics, the text area and the download button.
Display ==
    /\ pc = "display"
    /\ shown' = shown \cup {"metrics", "text_area"}
                      \cup (IF combined_text # "" THEN {"download_button"} ELSE {})
    /\ pc' = "exit"
    /\ UNCHANGED <<tempDir, fsDirs, fsFiles, selected_extensions, exclusions_str,
                   exclusions_lower, extracted, listing_raised, files_to_process,
                   scan_root_path, i, combined_content, files_processed_count,
                   errors_encountered, records, combined_text, files_read_count,
                   token_count, tokenizer, called, raised>>

\* An exception that no except clause of the block catches (raised by a page
\* call or by the directory walk) leaves the with block: before get_files
\* returns, before read_and_combine starts, or inside its loop.
Raise ==
    /\ \/ pc \in {"after_extract", "combine"}
       \/ pc = "reading" /\ i < Len(files_to_process)
    /\ raised' = TRUE
    /\ pc' = "exit"
    /\ UNCHANGED <<tempDir, fsDirs, fsFiles, selected_extensions, exclusions_str,
                   exclusions_lower, extracted, listing_raised, files_to_process,
                   scan_root_path, i, combined_content, files_processed_count,
                   errors_encountered, records, combined_text, files_read_count,
                   token_count, tokenizer, called, shown>>

\* TempDirOnExit removing the directory on the normal path only.
TempDirOnExitKeptWhenRaised(r) == IF r THEN "exists" ELSE "removed"

\* Lines 275 and 358: what leaving `with tempfile.TemporaryDirectory()` does
\* to the directory, an exception propagating (r) or not.
TempDirOnExit(r) == "removed"

\* Lines 358-359: the with block is left, normally or by an exception.
ExitTempDir ==
    /\ pc = "exit"
    /\ tempDir' = TempDirOnExit(raised)
    /\ IF tempDir' = "removed"
       THEN fsDirs' = {} /\ fsFiles' = {}
       ELSE UNCHANGED <<fsDirs, fsFiles>>
    /\ IF raised
       THEN pc' = "crashed" /\ UNCHANGED shown
       ELSE pc' = "done" /\ shown' = shown \cup {"info_cleaned_up"}
    /\ UNCHANGED <<selected_extensions, exclusions_str, exclusions_lower,
                   extracted, listing_raised, files_to_process, scan_root_path,
                   i, combined_content, files_processed_count,
                   errors_encountered, records, combined_text, files_read_count,
                   token_count, tokenizer, called, raised>>

Next ==
    \/ ClickWithoutExtensions
    \/ EnterTempDir
    \/ ExtractArchive
    \/ SkipCore
    \/ GetFilesCall
    \/ StartCombine
    \/ ReadFile
    \/ FinishCombine
    \/ CountTokens
    \/ Display
    \/ Raise
    \/ ExitTempDir

Spec == Init /\ [][Next]_vars

(***************************************************************************)
(* get_files alone, over a wider set of trees: the state right after a     *)
(* successful extraction, then the call at line 304.                       *)
(***************************************************************************)
ScanInit ==
    /\ pc = "after_extract"
    /\ tempDir = "exists"
    /\ \E tree \in Trees(ScanCandidates, ScanMaxFiles, EmptyDirChoices) :
        fsFiles = tree.files /\ fsDirs = tree.dirs
    /\ selected_extensions \in ExtensionChoices
    /\ exclusions_str \in ExclusionTexts
    /\ exclusions_lower = ExclusionsLower(exclusions_str)
    /\ extracted = TRUE
    /\ listing_raised = FALSE
    /\ files_to_process = <<>>
    /\ scan_root_path = <<>>
    /\ i = 0
    /\ combined_content = <<>>
    /\ files_processed_count = 0
    /\ errors_encountered = <<>>
    /\ records = <<>>
    /\ combined_text = ""
    /\ files_read_count = 0
    /\ token_count = 0
    /\ tokenizer = [resolve |-> "-", encode |-> "-", tokens |-> 0]
    /\ called = {}
    /\ shown = {"extract_success"}
    /\ raised = FALSE

ScanNext == GetFilesCall

ScanSpec == ScanInit /\ [][ScanNext]_vars

(***************************************************************************)
(* Properties.                                                             *)
(***************************************************************************)
\* get_files has returned.
Scanned == "get_files" \in called

\* read_and_combine has returned.
Returned == pc \in {"count", "display"} \/ "metrics" \in shown

\* The files of the tree below the scan root.
FilesUnderScanRoot ==
    {f \in fsFiles : IsPrefix(scan_root_path, f) /\ f # scan_root_path}

\* Some segment of f below the scan root, f's own name included, is excluded.
SegmentExcluded(f) ==
    \E j \in (Len(scan_root_path) + 1)..Len(f) :
        \E k \in 1..Len(exclusions_lower) : Lower(f[j]) = exclusions_lower[k]

\* The lowercased suffix of f is one of the normalized extensions.
SuffixSelected(f) ==
    \E k \in 1..Len(selected_extensions) :
        Lower(Suffix(f[Len(f)])) = ValidExtensions(selected_extensions)[k]

\* C1: once get_files has returned, a file under the scan root is in the
\* matched list if and only if its lowercased suffix is a normalized
\* extension and no segment from its own name up to, but excluding, the scan
\* root has a lowercased name in the exclusion list; nothing else is in the list.
C1_MatchedIffSelectedAndNotExcluded ==
    (Scanned /\ tempDir = "exists") =>
        /\ \A f \in FilesUnderScanRoot :
              (f \in Range(files_to_process))
                  <=> (SuffixSelected(f) /\ ~SegmentExcluded(f))
        /\ Range(files_to_process) \subseteq FilesUnderScanRoot

\* C1 witness: a file is matched while another file with a selected suffix
\* is left out because a directory above its parent is excluded.
C1_Witness ==
    /\ Scanned /\ tempDir = "exists"
    /\ files_to_process # <<>>
    /\ \E f \in FilesUnderScanRoot :
          /\ SuffixSelected(f)
          /\ f \notin Range(files_to_process)
          /\ Len(f) >= Len(scan_root_path) + 3
          /\ \A k \in 1..Len(exclusions_lower) :
                /\ Lower(f[Len(f)]) # exclusions_lower[k]
                /\ Lower(f[Len(f) - 1]) # exclusions_lower[k]

\* The entries of the extraction root.
EntriesOfRoot ==
    {q \in fsDirs \cup fsFiles : Len(q) = Len(temp_dir_path) + 1 /\ IsPrefix(temp_dir_path, q)}

\* The extraction root holds exactly one entry, a directory whose lowercased
\* name is not excluded, and listing the root did not raise.
SingleWrapper(d) ==
    /\ ~listing_raised
    /\ EntriesOfRoot = {d}
    /\ d \in fsDirs
    /\ \A k \in 1..Len(exclusions_lower) : Lower(d[Len(d)]) # exclusions_lower[k]

\* C2: once get_files has returned, the scan root is the single entry of the
\* extraction root when that entry is a directory whose lowercased name is
\* not excluded; it is the extraction root when the single entry is
\* excluded or is a file, when the root holds no or several entries, and
\* when listing the root raised.
C2_ScanRootResolution ==
    (Scanned /\ tempDir = "exists") =>
        /\ \A d \in EntriesOfRoot : SingleWrapper(d) => scan_root_path = d
        /\ (~\E d \in EntriesOfRoot : SingleWrapper(d)) => scan_root_path = temp_dir_path

\* C2 witness: the only entry of the root is a directory that is not
\* excluded, the exclusion list is not empty, and the scan root is that directory.
C2_Witness ==
    /\ Scanned /\ tempDir = "exists"
    /\ exclusions_lower # <<>>
    /\ \E d \in EntriesOfRoot : SingleWrapper(d) /\ scan_root_path = d
    /\ files_to_process # <<>>

\* C10: the list get_files returns holds no path twice.
C10_NoDuplicatePaths ==
    \A j, k \in 1..Len(files_to_process) :
        j # k => files_to_process[j] # files_to_process[k]

\* C10 witness: get_files has returned two files, one in the scan root and
\* one in a subdirectory.
C10_Witness ==
    /\ Scanned
    /\ Len(files_to_process) >= 2
    /\ \E j, k \in 1..Len(files_to_process) :
          Len(files_to_process[j]) < Len(files_to_process[k])

\* The path of the k-th file relative to the scan root, as text.
RelativeText(k) ==
    JoinPath(SubSeq(files_to_process[k], Len(scan_root_path) + 1,
                    Len(files_to_process[k])))

\* The k-th file's content was appended (first read or latin-1 read).
ReadOk(k) == records[k].status \in {"read", "fallback"}

\* The block of a file that was read.
Block(k) ==
    "\n========== File: " \o RelativeText(k) \o " ==========\n\n"
        \o records[k].body \o "\n"

RECURSIVE BlocksFrom(_)
BlocksFrom(k) == IF k > Len(records) THEN "" ELSE Block(k) \o BlocksFrom(k + 1)

\* C3: when every file of the list was read, read_and_combine returns the
\* concatenation, in the order of the list, of one block per file (newline,
\* ten '=', " File: ", the path relative to the scan root, a space, ten '=',
\* two newlines, the decoded content, a newline), and a count equal to the
\* length of the list.
C3_BlocksInListOrder ==
    (Returned /\ \A k \in 1..Len(records) : ReadOk(k)) =>
        /\ Len(records) = Len(files_to_process)
        /\ \A k \in 1..Len(records) :
              /\ records[k].path = files_to_process[k]
              /\ \E enc \in KnownCodecs :
                    records[k].body = TextOf(ReadText(records[k].data, enc))
        /\ combined_text = BlocksFrom(1)
        /\ files_read_count = Len(files_to_process)

\* C3 witness: two files with different contents were read, the first of
\* them below a directory of the scan root, and read_and_combine has returned.
C3_Witness ==
    /\ Returned
    /\ Len(records) = 2
    /\ ReadOk(1) /\ ReadOk(2)
    /\ records[1].body # records[2].body
    /\ Len(files_to_process[1]) > Len(scan_root_path) + 1
    /\ files_read_count = 2

\* The pieces of a file that was read: its header, its content, a newline.
ReadPieces(k) ==
    <<"\n========== File: " \o RelativeText(k) \o " ==========\n\n",
      records[k].body, "\n">>

\* The pieces of a file that failed after its header was written: the
\* header and an error marker, no content.
MarkedPieces(k) ==
    {<<"\n========== File: " \o RelativeText(k) \o " ==========\n\n", m>> :
        m \in {"[Error: File not found]\n", "[Error: Permission denied]\n",
               "[Error reading file: OSError]\n",
               "[Error reading file: LookupError]\n"}}

\* The single piece of a file whose path could not be processed: an error
\* record under the file's own name.
PathErrorPieces(k) ==
    {<<"\n========== Error processing " \o what \o ": "
          \o Str(files_to_process[k][Len(files_to_process[k])])
          \o " ==========\n[Error: " \o e \o "]\n">> :
        what \in {"path", "entry"}, e \in {"ValueError", "RuntimeError"}}

RECURSIVE PiecesFrom(_)
PiecesFrom(k) ==
    IF k > Len(records) THEN <<>> ELSE records[k].pieces \o PiecesFrom(k + 1)

\* Every file attempted so far was attempted once, in the order of the list;
\* a file that was read contributed its block and the others an error
\* marker and no content; the counter counts the files that were read.
C4_State ==
    /\ Len(records) = i
    /\ i <= Len(files_to_process)
    /\ \A k \in 1..Len(records) :
          /\ records[k].path = files_to_process[k]
          /\ IF ReadOk(k)
             THEN records[k].pieces = ReadPieces(k)
             ELSE /\ records[k].pieces \in MarkedPieces(k) \cup PathErrorPieces(k)
                  /\ records[k].body = ""
    /\ pc = "reading" => combined_content = PiecesFrom(1)
    /\ pc = "reading" =>
          files_processed_count = Cardinality({k \in 1..Len(records) : ReadOk(k)})
    /\ Returned =>
          /\ Len(records) = Len(files_to_process)
          /\ combined_text = Str(PiecesFrom(1))
          /\ files_read_count = Cardinality({k \in 1..Len(records) : ReadOk(k)})

\* An iteration, whatever happened to its file, leaves the loop running and
\* no exception propagating.
C4_Step ==
    Len(records') = Len(records) + 1 => (pc' = "reading" /\ raised' = raised)

\* C4: a failure while processing one file neither propagates out of the
\* loop nor stops it: every file of the list is attempted exactly once, in
\* order; a failed file contributes an error marker instead of content and
\* is not counted; every other file is read and counted.
C4_FailuresAreAbsorbed == [](C4_State) /\ [][C4_Step]_vars

\* C4 witness: the first file had vanished when it was read, the second was
\* read, and read_and_combine returned with a count of one.
C4_Witness ==
    /\ Returned
    /\ Len(records) = 2
    /\ records[1].status = "FileNotFoundError"
    /\ records[2].status = "read"
    /\ files_read_count = 1

\* C5: in the loop the processed-file counter never exceeds the number of
\* files attempted so far; on return the count is the number of files whose
\* content was appended by the first read or by the latin-1 read, and it
\* does not exceed the number of matched files shown beside it.
C5_CountAtMostAttempted ==
    /\ files_processed_count <= i
    /\ i <= Len(files_to_process)
    /\ Returned =>
          /\ files_read_count =
                Cardinality({k \in 1..Len(records) :
                                records[k].status \in {"read", "fallback"}})
          /\ files_read_count <= Len(files_to_process)

\* C5 witness: of two files, one was read under latin-1 after the first read
\* failed and the other failed under latin-1 too; one file is counted.
C5_Witness ==
    /\ Returned
    /\ Len(records) = 2
    /\ \E j, k \in 1..2 : /\ records[j].status = "fallback"
                         /\ records[k].status = "fallback_failed"
    /\ files_read_count = 1

\* The run is over.
RunEnded == pc \in {"done", "crashed"}

\* The directory is gone when the run is over, and the steps of a run that
\* use the directory are taken while it exists.
C6_State ==
    /\ (RunEnded /\ tempDir # "none") => tempDir = "removed"
    /\ pc \in {"extract", "after_extract", "combine", "reading", "count",
               "display", "exit"} => tempDir = "exists"
    /\ tempDir = "removed" => RunEnded

\* A step that discovers files (get_files) or reads one (an iteration of
\* read_and_combine) is taken with the directory in place before and after.
C6_Step ==
    (called' # called \/ files_to_process' # files_to_process
        \/ records' # records)
    => (tempDir = "exists" /\ tempDir' = "exists")

\* C6: in every run that creates the temporary directory, the directory is
\* removed by the time the run ends, whether extraction failed, no file
\* matched, processing succeeded, some files failed or an exception left the
\* block; and no file discovery or file read happens after the removal.
C6_TempDirRemoved == [](C6_State) /\ [][C6_Step]_vars

\* C6 witness: an exception left the block after a file was processed, and
\* the directory is removed.
C6_Witness ==
    /\ pc = "crashed"
    /\ raised
    /\ Len(records) >= 1
    /\ tempDir = "removed"

\* The extraction failed and was reported.
ExtractionFailed ==
    "error_bad_zip" \in shown \/ "error_extracting" \in shown

\* C7: when the extraction fails the run reports an error and the core is
\* never invoked: get_files, read_and_combine and count_tokens are not
\* called and no metrics, combined text or download button are produced;
\* file discovery starts only after a successful extraction.
C7_NoCoreAfterFailedExtraction ==
    /\ (pc \notin {"idle", "extract"} /\ tempDir # "none" /\ ~extracted)
          => ExtractionFailed
    /\ ExtractionFailed =>
          /\ ~extracted
          /\ called = {}
          /\ files_to_process = <<>>
          /\ records = <<>>
          /\ combined_text = ""
          /\ shown \cap {"found", "metrics", "text_area", "download_button"} = {}
    /\ called # {} => (extracted /\ "extract_success" \in shown)

\* C7 witness: extractall raised after writing files, the block is about to
\* be left, and nothing of the core has run.
C7_Witness ==
    /\ pc = "exit"
    /\ "error_extracting" \in shown
    /\ \E f \in fsFiles : Lower(Suffix(f[Len(f)])) = e_py
    /\ called = {}

\* count_tokens has returned.
Counted_Tokens == "count_tokens" \in called

OriginalText(bytes) == TextOf(DecodeUtf8(bytes))

\* C9: for every file whose bytes are well-formed UTF-8, the body appended
\* for it equals the file's original content exactly, with no replacement
\* character and no character altered, whatever encoding was detected.
C9_RoundTrip ==
    \A k \in 1..Len(records) :
        (ReadOk(k) /\ ValidUtf8(records[k].data))
            => records[k].body = OriginalText(records[k].data)

\* The first read of the k-th file failed as a decoding failure: the detected
\* encoding name could not be used (LookupError), or the read raised
\* UnicodeDecodeError (and the file was then read under latin-1).
DecodingFailed(k) ==
    records[k].status \in {"LookupError", "fallback", "fallback_failed"}

\* The k-th file was opened once under latin-1; its latin-1 content was
\* appended and the file counted, or that read raised too and the marker
\* '[Error reading file: <description>]' took the place of the content.
RetriedOnce(k) ==
    /\ records[k].retries = 1
    /\ \/ /\ records[k].status = "fallback"
          /\ records[k].body = TextOf(ReadText(records[k].data, "latin-1"))
          /\ records[k].pieces = ReadPieces(k)
          /\ records[k].counted = 1
       \/ /\ records[k].status = "fallback_failed"
          /\ records[k].pieces =
                <<"\n========== File: " \o RelativeText(k) \o " ==========\n\n",
                  "[Error reading file: OSError]\n">>
          /\ records[k].counted = 0

\* C11: whenever the read of a file under the detected encoding fails as a
\* decoding failure, an unusable detected encoding name included, the file is
\* read again exactly once under latin-1; when that read returns, its content
\* is appended and the file is counted, and the marker
\* '[Error reading file: <description>]' is appended, and the file recorded
\* as failed, only when that read raises too.
C11_DecodeFailureRetried ==
    \A k \in 1..Len(records) : DecodingFailed(k) => RetriedOnce(k)

\* The part of C11 the code keeps: a read that raises UnicodeDecodeError is
\* followed by exactly one read under latin-1.
C11_UnicodeDecodeErrorRetried ==
    \A k \in 1..Len(records) :
        records[k].status \in {"fallback", "fallback_failed"} => RetriedOnce(k)

====
